---- MODULE Spec2Model ----
(***************************************************************************)
(* State-machine model of fuelfire8/controller.py: the FuelFire process    *)
(* controller, the RecordedFuelFire step record (record.nc) and the        *)
(* RepeatedFuelFire replicate record (repeat.nc).                          *)
(*                                                                         *)
(* Spec     the two record stores driven as PropegateModel drives them.    *)
(*          FuelFire.SingleStep is one step whose outcome is drawn from    *)
(*          what StartModel / ModelWait / Kill / GetBout can yield.  The   *)
(*          record phase starts from a fresh model directory; the repeat   *)
(*          phase starts from a directory whose record phase has ended.    *)
(* RecordSpec, RepeatSpec  the record phase and the repeat phase alone.    *)
(* FairRecordSpec  the record phase with a running RunSteps call going on  *)
(*          to its next statement (weak fairness) and an engine that       *)
(*          does not fail or repeat the previous mosaic for ever (strong   *)
(*          fairness of an accepted cycle).                                *)
(* ControlSpec  the FuelFire controller statement by statement:            *)
(*          StartModel,                                                    *)
(*          ModelWait, Kill, GetBout, RemoveBurn inside SingleStep,        *)
(*          StraightSteps and TimedRun, interleaved with the FUELFIRE.EXE  *)
(*          process, the TASKKILL process and the passing of time.  The    *)
(*          engine blocks on its launch dialog until it receives ESC.      *)
(* CodecSpec  SaveMosaic(0) followed by ReLoadMosaic(0) for every cell      *)
(*          value of the documented range.                                 *)
(* WedgeSpec  one call of Footprint.Wedge for each choice of arguments.     *)
(* PackSpec  one slot of repeat.nc in the while loop of RunReps: engine    *)
(*          steps that succeed are stored by SaveRepeatStep, failed ones   *)
(*          are not, StepProbabilities is run on the slot in between.      *)
(*                                                                         *)
(* The script can be interrupted at any statement (Interrupt): the objects *)
(* of the call are lost, the files stay as they are.                       *)
(***************************************************************************)
EXTENDS Integers, Sequences, FiniteSets, TLC

(* ------------------------------ bounds -------------------------------- *)

\* <maxsteps> of the record created in the record phase
MaxSteps == 3

\* <maxsteps> of the record the repeat phase starts from
RepeatSteps == 2

\* largest <radius> Footprint.Wedge is called with
MaxRadius == 2

\* interruptions of the controlling script in one behaviour
MaxRestarts == 2

\* engine launches (StartModel calls) in one behaviour of the controller
MaxCycles == 3

\* number of cells of the mosaic (one row: xlen = 1, ylen = NCells)
NCells == 2

\* largest <reps> argument the model passes to RunReps
MaxTarget == 2

\* the <maxreps> argument the model creates repeat.nc with
RepLength == 8

\* the <calcint> argument the model constructs RepeatedFuelFire with
CalcInt == 2

Cells == 1..NCells

\* cell values the engine writes to AGEPIX.DAT / CANOPIX.DAT
AgeVals == {0, 1}
FuelVals == {2}

AgeGrids == [Cells -> AgeVals]
FuelGrids == [Cells -> FuelVals]

\* the <stepoffset> arguments the model creates repeat.nc with
Offsets == {0, 1}

\* python None where a grid is expected: the grid with no cell
None == <<>>

\* no call of Footprint.Wedge is modelled
NoWedge == [pc |-> "none"]

(* ----------------------- signed 8-bit storage ------------------------- *)

\* the value written by CreateEmptyRecord into every age / fuel cell
Sentinel == -128

\* the offset SaveMosaic subtracts and ReLoadMosaic adds
Bias == 127

\* variant of Wrap8: a value outside -128..127 is stored as the nearest bound
Saturate8(x) == IF x > 127 THEN 127 ELSE IF x < -128 THEN -128 ELSE x

\* assignment of an integer to an 'i1' netCDF variable keeps the low 8 bits
Wrap8(x) == ((x + 128) % 256) - 128

SentinelGrid == [c \in Cells |-> Sentinel]

\* default fill values of unwritten netCDF cells ('i2' and 'i1' variables)
FillShort == -32767
FillByte == -127

\* the value RunReps resets a slot's trial planes to
TrialReset == -127

\* default <maxreps> of UpdateStepProbs / StepProbabilities
DefaultMaxReps == 256

VARIABLES
    pc,           \* position of the controlling script
    phase,        \* "record", "repeat", "update": which part of the workflow runs
    agefile,      \* AGEPIX.DAT: grid of integers
    fuelfile,     \* CANOPIX.DAT: grid of integers
    burnfile,     \* whether BURNT0OUT.TXT exists
    status,       \* FuelFire.status
    burndata,     \* FuelFire.burndata: a boolean grid, or None
    restarts,     \* interruptions so far
    recExists,    \* whether record.nc exists
    nsteps,       \* record.nc 't' dimension
    age,          \* record.nc 'age'      [step -> grid of int8]
    fuel,         \* record.nc 'fuel'     [step -> grid of int8]
    complete,     \* record.nc 'complete' [step -> 0|1]
    shufsteps,    \* record.nc 'shufsteps': sequence of step indices
    steps,        \* RunSteps local: pending steps (ascending)
    stop,         \* RunSteps argument: {} for None, {k} for k
    killTimedOut, \* the Kill of the last engine cycle exceeded KILLTIMEOUT
    repExists,    \* whether repeat.nc exists
    stepoffset,   \* repeat.nc attribute
    rdim,         \* repeat.nc 'r' dimension: number of byte planes
    rep,          \* repeat.nc records along 't': sequence, slot i at i + 1
    reps,         \* RunReps argument
    steplim,      \* RunReps / UpdateStepProbs argument
    slot,         \* loop index i (RunReps) / s (UpdateStepProbs)
    xstep,        \* RunReps local
    maxreps,      \* UpdateStepProbs argument
    run,          \* the FuelFire method running: "none", "SingleStep", ...
    ffpc,         \* position of the controller inside that method
    FF_EXE,       \* the process self.FF_EXE refers to
    orphans,      \* live FUELFIRE.EXE processes no handle refers to
    taskkill,     \* the TASKKILL process p of Kill
    waitExpired,  \* time.time() - self.starttime >= WAITTIMEOUT
    killExpired,  \* time.time() - starttime >= KILLTIMEOUT (Kill's starttime)
    quiet,        \* the burn file was last modified more than MODTHRESH ago
    life,         \* history: the last lifecycle event of the controller
    cycles,       \* StartModel calls so far
    fatalerror,   \* the <fatalerror> argument ModelWait is called with
    laterfile,    \* whether BURNT1OUT.TXT exists
    appended,     \* history: the burn grids SaveRepeatStep stored in slot 0
    wedge         \* a call of Footprint.Wedge: its arguments and the mask it returns

vars == <<pc, phase, restarts, agefile, fuelfile, burnfile, status, burndata, recExists,
          nsteps, age, fuel, complete, shufsteps, steps, stop, killTimedOut,
          repExists, stepoffset, rdim, rep, reps, steplim, slot, xstep, maxreps,
          run, ffpc, FF_EXE, orphans, taskkill, waitExpired, killExpired, quiet,
          life, cycles, fatalerror, laterfile, appended, wedge>>

fileVars == <<agefile, fuelfile, burnfile>>
ffVars == <<status, burndata>>
recVars == <<recExists, nsteps, age, fuel, complete, shufsteps>>

StepIdx == 0..(nsteps - 1)
rsVars == <<steps, stop>>
repVars == <<repExists, stepoffset, rdim, rep>>
rrVars == <<reps, steplim, slot, xstep, maxreps>>
packVars == <<appended, wedge>>
ctlVars == <<run, ffpc, FF_EXE, orphans, taskkill, waitExpired, killExpired, quiet,
             life, cycles, fatalerror, laterfile, packVars>>
storeVars == <<pc, phase, restarts, agefile, fuelfile, recVars, rsVars, killTimedOut,
               repVars, rrVars, packVars>>

(* --------------------------- helpers ---------------------------------- *)

\* variant of Perms: an order in which a step may come twice
AnyOrder(n) == [1..n -> 0..(n - 1)]

\* all orderings of 0..n-1, as sequences
Perms(n) == {p \in [1..n -> 0..(n - 1)] : \A i, j \in 1..n : i # j => p[i] # p[j]}

\* ascending sequence of the members of a set of integers
RECURSIVE SortedSeq(_)
SortedSeq(S) ==
    IF S = {} THEN <<>>
    ELSE LET m == CHOOSE x \in S : \A y \in S : x <= y
         IN <<m>> \o SortedSeq(S \ {m})

\* sum of f[x] over the finite set S
RECURSIVE SumOver(_, _)
SumOver(S, f) ==
    IF S = {} THEN 0
    ELSE LET x == CHOOSE y \in S : TRUE
         IN f[x] + SumOver(S \ {x}, f)

Min(a, b) == IF a < b THEN a ELSE b

\* python index into the 't' axis: a negative index counts from the end
RecIndex(step) == IF step < 0 THEN step + nsteps ELSE step

(* ------------------------ RecordedFuelFire ---------------------------- *)

\* SaveMosaic lines 328-329: the arrays computed from the text files
LoadedAge == [c \in Cells |-> agefile[c] - Bias]
LoadedFuel == [c \in Cells |-> fuelfile[c] - Bias]

\* variant of SameAsPrevious: no result counts as unchanged
SameAsPreviousNever(step) == FALSE

\* variant of SameAsPrevious: half of the cells unchanged is enough
SameAsPreviousHalf(step) ==
    LET same == {c \in Cells : LoadedAge[c] - age[step - 1][c] = 0}
    IN 2 * Cardinality(same) >= NCells

\* SaveMosaic line 331-332: mean(agediff == 0) > 0.5
SameAsPrevious(step) ==
    LET same == {c \in Cells : LoadedAge[c] - age[step - 1][c] = 0}
    IN 2 * Cardinality(same) > NCells

\* variant of MosaicRejected: every later step's result is refused
MosaicRejectedAlways(step) == step > 0

\* SaveMosaic line 330-335: the result is refused
MosaicRejected(step) == step > 0 /\ SameAsPrevious(step)

\* the three writes of SaveMosaic, lines 337-339
WriteAge(step) == age' = [age EXCEPT ![step] = [c \in Cells |-> Wrap8(LoadedAge[c])]]
\* variant of WriteFuel: the fuel grid is not written
WriteFuelSkipped(step) == fuel' = fuel

WriteFuel(step) == fuel' = [fuel EXCEPT ![step] = [c \in Cells |-> Wrap8(LoadedFuel[c])]]
\* variant of WriteComplete: the flag is left as it is
WriteCompleteSkipped(step) == complete' = complete

WriteComplete(step) == complete' = [complete EXCEPT ![step] = 1]

\* variant of ReLoadMosaic: the input files are left as they are
ReLoadMosaicSkipped(step) == UNCHANGED <<agefile, fuelfile>>

\* ReLoadMosaic lines 345-346: 127 + <int8 array> is an int8 array, the sum
\* wraps around before savetxt prints it
ReLoadMosaic(step) ==
    /\ agefile' = [c \in Cells |-> Wrap8(Bias + age[RecIndex(step)][c])]
    /\ fuelfile' = [c \in Cells |-> Wrap8(Bias + fuel[RecIndex(step)][c])]

\* variant of PendingSteps: the completion flags are not consulted
PendingStepsAll(cap) == SortedSeq({s \in StepIdx : \A k \in cap : s <= k})

\* variant of PendingSteps: the cap selects the one step equal to <stop>
PendingStepsAtStop(cap) ==
    LET open == {s \in StepIdx : complete[s] = 0}
    IN SortedSeq({s \in open : \A k \in cap : s = k})

\* RunSteps lines 308-310: the pending steps, capped at <stop>; the optional
\* argument is the empty set (None) or the set of its one value
PendingSteps(cap) ==
    LET open == {s \in StepIdx : complete[s] = 0}
    IN SortedSeq({s \in open : \A k \in cap : s <= k})

(* -------------------------- FuelFire ---------------------------------- *)

\* what one SingleStep (StartModel, ModelWait, Kill, GetBout) can end in
StepOutcomes == {"ok", "wait_timeout", "kill_timeout"}

\* SingleStep lines 164-169 with the engine's run: o is how the cycle ended,
\* a and f are what the engine left in AGEPIX.DAT and CANOPIX.DAT and b is
\* the burn grid of BURNT0OUT.TXT.  ModelWait succeeds only on an existing
\* burn file (line 192), so the file is there unless the wait timed out.
SingleStep(o, a, f, b) ==
    /\ agefile' = a
    /\ fuelfile' = f
    /\ burnfile' = (o # "wait_timeout")
    /\ status' = (o = "ok")
    /\ burndata' = IF o = "ok" THEN b ELSE None
    /\ killTimedOut' = (o = "kill_timeout")

\* the engine results the model draws from: every age grid over AgeVals, the
\* burn grid marking the cells whose age the fire has reset
EngineRuns ==
    {[age |-> a, fuel |-> f, burn |-> [c \in Cells |-> a[c] = 0]] :
        a \in AgeGrids, f \in FuelGrids}

\* the engine results the repeat phase draws from: the fire takes one cell
TrialRuns == {e \in EngineRuns : Cardinality({c \in Cells : e.burn[c]}) = 1}

\* a cycle of the repeat phase
TrialSingleStep ==
    \E o \in StepOutcomes, e \in TrialRuns : SingleStep(o, e.age, e.fuel, e.burn)

\* any cycle the engine and the operating system can produce
AnySingleStep ==
    \E o \in StepOutcomes, e \in EngineRuns : SingleStep(o, e.age, e.fuel, e.burn)

(* ------------------------ RepeatedFuelFire ---------------------------- *)

\* the neighbourhood of GetFootprint(footprintcode), as column offsets
Footprint == {0, 1}

\* num.ceil(n / 8.0)
Ceil8(n) == -((-n) \div 8)

\* CreateEmptyRecord line 400: length of the 'r' dimension
PlanesFor(n) == Ceil8(n)

Planes == 0..(rdim - 1)

\* a record of repeat.nc no variable of which has been written
FillSlot ==
    [step |-> FillShort,
     reps |-> FillShort,
     trials |-> [p \in Planes |-> [c \in Cells |-> FillByte]],
     age |-> [c \in Cells |-> FillByte],
     fuel |-> [c \in Cells |-> FillByte],
     hazard |-> [c \in Cells |-> FillShort],
     reached |-> [c \in Cells |-> FillShort],
     burnifreach |-> [c \in Cells |-> FillShort]]

\* writing record i of the unlimited 't' dimension grows every variable to it
Grown(i) ==
    IF i < Len(rep) THEN rep
    ELSE rep \o [k \in 1..(i + 1 - Len(rep)) |-> FillSlot]

\* num.array(127 + x, dtype='uint8')
Byte(t) == (Bias + t) % 256

\* weight of bit k of num.unpackbits: bit 0 is the most significant
BitWeight(k) == 2 ^ (7 - k)

\* bit k of num.unpackbits(byte)
BitAt(b, k) == (b \div BitWeight(k)) % 2

\* unpack, set bit k to v (0 or 1), packbits
SetBit(b, k, v) == b - BitAt(b, k) * BitWeight(k) + v * BitWeight(k)

BoolInt(v) == IF v THEN 1 ELSE 0

\* RunReps lines 436-438: the source step of a shuffled step
SourceStep(step) ==
    LET xs == step + stepoffset
        mx == CHOOSE m \in {shufsteps[k] : k \in 1..Len(shufsteps)} :
                  \A k \in 1..Len(shufsteps) : shufsteps[k] <= m
    IN IF xs > mx THEN 0 ELSE xs

\* SaveRepeatStep lines 461-462
PlaneOf(n) == n \div 8
BitOf(n) == n % 8

\* whether python accepts index p on the 'r' axis, and the plane it names
PlaneOk(p) == p >= -rdim /\ p < rdim
PlaneIndex(p) == IF p < 0 THEN p + rdim ELSE p

\* variant of PackedPlane: the plane is rebuilt from the new trial alone
PackedPlaneFresh(r, burn) ==
    [c \in Cells |-> Wrap8(SetBit(0, BitOf(r.reps), BoolInt(burn[c])) - Bias)]

\* SaveRepeatStep lines 464-469: the plane with trial n set to <burn>
PackedPlane(r, burn) ==
    [c \in Cells |->
        Wrap8(SetBit(Byte(r.trials[PlaneIndex(PlaneOf(r.reps))][c]),
                     BitOf(r.reps), BoolInt(burn[c])) - Bias)]

\* trial n of a record as num.unpackbits yields it: a grid of 0 / 1
Trial(r, n) == [c \in Cells |-> BitAt(Byte(r.trials[n \div 8][c]), n % 8)]

\* variant of MaximumFilter: no neighbour is looked at
MaximumFilterNone(g) == g

\* scipy.ndimage.maximum_filter(g, footprint) on a row, mode 'reflect'
Reflect(j) == IF j < 1 THEN 1 - j ELSE IF j > NCells THEN 2 * NCells + 1 - j ELSE j
MaximumFilter(g) ==
    [c \in Cells |-> IF \E d \in Footprint : g[Reflect(c + d)] = 1 THEN 1 ELSE 0]

\* StepProbabilities lines 488-506 on record r from shuffled step <step>;
\* n0 is the replicate count read from the record
StepProbs(r, step, mr, n0) ==
    LET n == IF n0 > mr THEN mr ELSE n0
        blockreps == Ceil8(n)
        sliced == {p \in Planes : IF blockreps >= 0 THEN p < blockreps
                                                    ELSE p < rdim + blockreps}
        unpacked == {t \in 0..(8 * rdim - 1) : (t \div 8) \in sliced}
        used == {t \in unpacked : t < n}
    IN [r EXCEPT
          !.age = age[step],
          !.fuel = fuel[step],
          !.hazard = [c \in Cells |->
                        SumOver(unpacked, [t \in unpacked |-> Trial(r, t)[c]])],
          !.reached = [c \in Cells |->
                        SumOver(used, [t \in used |-> MaximumFilter(Trial(r, t))[c]])],
          !.burnifreach = [c \in Cells |->
                        SumOver(used, [t \in used |->
                            IF Trial(r, t)[c] = 1 /\ MaximumFilter(Trial(r, t))[c] = 1
                            THEN 1 ELSE 0])]]

\* end of the for loop of RunReps line 435 / UpdateStepProbs line 478
LoopEnd(lim) == Min(lim, nsteps)

(* ------------------------------ Init ---------------------------------- *)

\* locals of a call that is not running
NoCall ==
    /\ status = TRUE
    /\ burndata = None
    /\ steps = <<>>
    /\ stop = {}
    /\ killTimedOut = FALSE
    /\ reps = 0
    /\ steplim = 0
    /\ slot = 0
    /\ xstep = 0
    /\ maxreps = 0

NoRepeat ==
    /\ repExists = FALSE
    /\ stepoffset = 0
    /\ rdim = 0
    /\ rep = <<>>
    /\ appended = <<>>
    /\ wedge = NoWedge

\* the controller between two calls, no engine launched yet
NoProcess ==
    /\ run = "none"
    /\ ffpc = "idle"
    /\ FF_EXE = "none"
    /\ orphans = 0
    /\ taskkill = "none"
    /\ waitExpired = FALSE
    /\ killExpired = FALSE
    /\ quiet = FALSE
    /\ life = "Idle"
    /\ cycles = 0
    /\ fatalerror = FALSE
    /\ laterfile = FALSE

\* record phase: a provisioned model directory without record.nc
RecordInit ==
    /\ NoProcess
    /\ phase = "record"
    /\ restarts = 0
    /\ pc = "idle"
    /\ agefile \in AgeGrids
    /\ fuelfile \in FuelGrids
    /\ burnfile = FALSE
    /\ recExists = FALSE
    /\ nsteps = 0
    /\ age = <<>>
    /\ fuel = <<>>
    /\ complete = <<>>
    /\ shufsteps = <<>>
    /\ NoCall
    /\ NoRepeat

\* a record as RunSteps leaves it: steps 0..k-1 written, each age grid
\* differing from the one before it, the others untouched
RecordedAge(s) == [c \in Cells |-> Wrap8(((s + c) % 2) - Bias)]
RecordedFuel == [c \in Cells |-> Wrap8((CHOOSE v \in FuelVals : TRUE) - Bias)]

\* repeat phase: record.nc holds k completed steps, repeat.nc is absent
RepeatInit ==
    /\ NoProcess
    /\ phase = "repeat"
    /\ restarts = 0
    /\ pc = "idle"
    /\ recExists = TRUE
    /\ nsteps = RepeatSteps
    /\ shufsteps \in Perms(RepeatSteps)
    /\ \E k \in 1..RepeatSteps :
         /\ complete = [s \in StepIdx |-> IF s < k THEN 1 ELSE 0]
         /\ age = [s \in StepIdx |-> IF s < k THEN RecordedAge(s) ELSE SentinelGrid]
         /\ fuel = [s \in StepIdx |-> IF s < k THEN RecordedFuel ELSE SentinelGrid]
         /\ agefile = [c \in Cells |-> Bias + RecordedAge(k - 1)[c]]
    /\ fuelfile = [c \in Cells |-> Bias + RecordedFuel[c]]
    /\ burnfile = TRUE
    /\ NoCall
    /\ NoRepeat

Init == RecordInit \/ RepeatInit

\* the call is over (returned, raised or interrupted): its objects are dropped
EndCall ==
    /\ pc' = "idle"
    /\ status' = TRUE
    /\ burndata' = None
    /\ steps' = <<>>
    /\ stop' = {}
    /\ killTimedOut' = FALSE
    /\ reps' = 0
    /\ steplim' = 0
    /\ slot' = 0
    /\ xstep' = 0
    /\ maxreps' = 0

(* ---------------------- actions: record phase ------------------------- *)

\* RecordedFuelFire(ffdir, maxsteps) with record.nc absent, lines 276-278:
\* CreateEmptyRecord, which ends with SaveMosaic(0)
CreateEmptyRecord ==
    /\ phase \in {"record", "codec"}
    /\ pc = "idle"
    /\ ~recExists
    /\ recExists' = TRUE
    /\ nsteps' = MaxSteps
    /\ shufsteps' \in Perms(MaxSteps)
    /\ age' = [s \in 0..(MaxSteps - 1) |->
                 IF s = 0 THEN [c \in Cells |-> Wrap8(LoadedAge[c])] ELSE SentinelGrid]
    /\ fuel' = [s \in 0..(MaxSteps - 1) |->
                 IF s = 0 THEN [c \in Cells |-> Wrap8(LoadedFuel[c])] ELSE SentinelGrid]
    /\ complete' = [s \in 0..(MaxSteps - 1) |-> IF s = 0 THEN 1 ELSE 0]
    /\ UNCHANGED <<ctlVars, pc, phase, restarts, fileVars, ffVars, rsVars, killTimedOut, repVars, rrVars>>

\* RecordedFuelFire(ffdir) with record.nc absent and no <maxsteps>, lines
\* 280-281: StandardError('file not found') is raised by the constructor
OpenRecordMissing ==
    /\ phase = "record"
    /\ pc = "idle"
    /\ ~recExists
    /\ pc' = "rc_raise"
    /\ UNCHANGED <<ctlVars, phase, restarts, fileVars, ffVars, recVars, rsVars, killTimedOut,
                   repVars, rrVars>>

\* RecordedFuelFire(ffdir).RunSteps(stop), lines 308-310
RunStepsBegin ==
    /\ phase = "record"
    /\ pc = "idle"
    /\ recExists
    /\ stop' \in {{}} \cup {{k} : k \in 1..(nsteps - 1)}
    /\ steps' = PendingSteps(stop')
    /\ pc' = "rs_loop"
    /\ UNCHANGED <<ctlVars, phase, restarts, fileVars, ffVars, recVars, killTimedOut, repVars, rrVars>>

\* RunSteps line 312-314: loop test, then ReLoadMosaic(step-1)
RunStepsReload ==
    /\ pc = "rs_loop"
    /\ Len(steps) > 0
    /\ ReLoadMosaic(Head(steps) - 1)
    /\ pc' = "rs_single"
    /\ UNCHANGED <<ctlVars, phase, restarts, burnfile, ffVars, recVars, rsVars, killTimedOut, repVars, rrVars>>

\* RunSteps line 315: self.ff.SingleStep()
RunStepsSingleStep ==
    /\ pc = "rs_single"
    /\ AnySingleStep
    /\ pc' = "rs_check"
    /\ UNCHANGED <<ctlVars, phase, restarts, recVars, rsVars, repVars, rrVars>>

\* RunSteps line 316, 321-322: the cycle failed, the step is tried again
RunStepsRetry ==
    /\ pc = "rs_check"
    /\ status # TRUE
    /\ pc' = "rs_loop"
    /\ UNCHANGED <<ctlVars, phase, restarts, fileVars, ffVars, recVars, rsVars, killTimedOut, repVars, rrVars>>

\* RunSteps line 317 into SaveMosaic lines 328-335: the mosaic is refused
SaveMosaicReject ==
    /\ pc = "rs_check"
    /\ status = TRUE
    /\ MosaicRejected(Head(steps))
    /\ status' = FALSE
    /\ pc' = "rs_loop"
    /\ UNCHANGED <<ctlVars, phase, restarts, fileVars, burndata, recVars, rsVars, killTimedOut, repVars, rrVars>>

\* SaveMosaic line 337
SaveMosaicAge ==
    /\ pc = "rs_check"
    /\ status = TRUE
    /\ ~MosaicRejected(Head(steps))
    /\ WriteAge(Head(steps))
    /\ pc' = "sm_fuel"
    /\ UNCHANGED <<ctlVars, phase, restarts, fileVars, ffVars, recExists, nsteps, fuel, complete, shufsteps,
                   rsVars, killTimedOut, repVars, rrVars>>

\* SaveMosaic line 338
SaveMosaicFuel ==
    /\ pc = "sm_fuel"
    /\ WriteFuel(Head(steps))
    /\ pc' = "sm_complete"
    /\ UNCHANGED <<ctlVars, phase, restarts, fileVars, ffVars, recExists, nsteps, age, complete, shufsteps,
                   rsVars, killTimedOut, repVars, rrVars>>

\* SaveMosaic lines 339-340, then RunSteps lines 318-320
SaveMosaicComplete ==
    /\ pc = "sm_complete"
    /\ WriteComplete(Head(steps))
    /\ steps' = IF status = TRUE THEN Tail(steps) ELSE steps
    /\ pc' = "rs_loop"
    /\ UNCHANGED <<ctlVars, phase, restarts, fileVars, ffVars, recExists, nsteps, age, fuel, shufsteps, stop,
                   killTimedOut, repVars, rrVars>>

\* RunSteps line 312, 324: no pending step is left
RunStepsReturn ==
    /\ pc = "rs_loop"
    /\ Len(steps) = 0
    /\ pc' = "rs_done"
    /\ UNCHANGED <<ctlVars, phase, restarts, fileVars, ffVars, recVars, rsVars, killTimedOut, repVars, rrVars>>

(* ---------------------- actions: repeat phase ------------------------- *)

\* a whole RunSteps(k) call between two repeat runs: the lowest pending step
\* k is recorded from an accepted engine cycle
RunStepsCall ==
    /\ phase = "repeat"
    /\ pc = "idle"
    /\ \E k \in StepIdx :
         /\ complete[k] = 0
         /\ \A s \in StepIdx : s < k => complete[s] = 1
         /\ agefile' = [c \in Cells |-> Bias + RecordedAge(k)[c]]
         /\ fuelfile' = [c \in Cells |-> Bias + RecordedFuel[c]]
         /\ age' = [age EXCEPT ![k] = RecordedAge(k)]
         /\ fuel' = [fuel EXCEPT ![k] = RecordedFuel]
         /\ complete' = [complete EXCEPT ![k] = 1]
    /\ burnfile' = TRUE
    /\ UNCHANGED <<ctlVars, pc, phase, restarts, ffVars, recExists, nsteps, shufsteps, rsVars, killTimedOut,
                   repVars, rrVars>>

\* RepeatedFuelFire(ffdir, maxreps, stepoffset) with repeat.nc absent,
\* lines 386-387 and CreateEmptyRecord lines 397-402
CreateRepeat ==
    /\ phase = "repeat"
    /\ pc = "idle"
    /\ recExists
    /\ ~repExists
    /\ repExists' = TRUE
    /\ stepoffset' \in Offsets
    /\ rdim' = PlanesFor(RepLength)
    /\ rep' = <<>>
    /\ UNCHANGED <<ctlVars, pc, phase, restarts, fileVars, ffVars, recVars, rsVars, killTimedOut, rrVars>>

\* RepeatedFuelFire(ffdir) with repeat.nc absent and no <maxreps>, lines
\* 383-392: neither branch of the if / elif is taken, self.rep is not set
\* and the constructor returns the object
OpenRepeatMissing ==
    /\ phase = "repeat"
    /\ pc = "idle"
    /\ recExists
    /\ ~repExists
    /\ pc' = "rf_unbound"
    /\ UNCHANGED <<ctlVars, phase, restarts, fileVars, ffVars, recVars, rsVars, killTimedOut,
                   repVars, rrVars>>

\* RunReps on that object, lines 430-436: self.rep is read, AttributeError
RunRepsUnbound ==
    /\ pc = "rf_unbound"
    /\ pc' = "rf_error"
    /\ UNCHANGED <<ctlVars, phase, restarts, fileVars, ffVars, recVars, rsVars, killTimedOut,
                   repVars, rrVars>>

\* RepeatedFuelFire(ffdir).RunReps(reps, steplim), lines 430-433
RunRepsBegin ==
    /\ phase = "repeat"
    /\ pc = "idle"
    /\ repExists
    /\ reps' \in 1..MaxTarget
    /\ steplim' \in 1..nsteps
    /\ slot' = 0
    /\ pc' = "rr_for"
    /\ UNCHANGED <<ctlVars, phase, restarts, fileVars, ffVars, recVars, rsVars, killTimedOut, repVars,
                   xstep, maxreps>>

\* RunReps line 435: the for loop is exhausted
RunRepsReturn ==
    /\ pc = "rr_for"
    /\ slot >= LoopEnd(steplim)
    /\ pc' = "rr_done"
    /\ UNCHANGED <<ctlVars, phase, restarts, fileVars, ffVars, recVars, rsVars, killTimedOut, repVars, rrVars>>

\* RunReps lines 436-440: the source step is not complete, the slot is passed
RunRepsSkip ==
    /\ pc = "rr_for"
    /\ slot < LoopEnd(steplim)
    /\ complete[SourceStep(shufsteps[slot + 1])] # 1
    /\ slot' = slot + 1
    /\ UNCHANGED <<ctlVars, pc, phase, restarts, fileVars, ffVars, recVars, rsVars, killTimedOut, repVars,
                   reps, steplim, xstep, maxreps>>

\* RunReps lines 441-442: first write of the lazy initialisation
RunRepsInitStep ==
    /\ pc = "rr_for"
    /\ slot < LoopEnd(steplim)
    /\ complete[SourceStep(shufsteps[slot + 1])] = 1
    /\ Len(rep) = slot
    /\ xstep' = SourceStep(shufsteps[slot + 1])
    /\ rep' = [Grown(slot) EXCEPT ![slot + 1].step = xstep']
    /\ pc' = "rr_init_reps"
    /\ UNCHANGED <<ctlVars, phase, restarts, fileVars, ffVars, recVars, rsVars, killTimedOut,
                   repExists, stepoffset, rdim, reps, steplim, slot, maxreps>>

\* RunReps line 443
RunRepsInitReps ==
    /\ pc = "rr_init_reps"
    /\ rep' = [rep EXCEPT ![slot + 1].reps = 0]
    /\ pc' = "rr_init_trials"
    /\ UNCHANGED <<ctlVars, phase, restarts, fileVars, ffVars, recVars, rsVars, killTimedOut,
                   repExists, stepoffset, rdim, rrVars>>

\* RunReps line 444, then line 446
RunRepsInitTrials ==
    /\ pc = "rr_init_trials"
    /\ rep' = [rep EXCEPT ![slot + 1].trials =
                   [p \in Planes |-> [c \in Cells |-> TrialReset]]]
    /\ xstep' = rep[slot + 1].step
    /\ pc' = "rr_while"
    /\ UNCHANGED <<ctlVars, phase, restarts, fileVars, ffVars, recVars, rsVars, killTimedOut,
                   repExists, stepoffset, rdim, reps, steplim, slot, maxreps>>

\* RunReps lines 440-441, 446: the slot is not the next record to add, its
\* back-reference is read; reading past the end of 't' raises IndexError
RunRepsVisit ==
    /\ pc = "rr_for"
    /\ slot < LoopEnd(steplim)
    /\ complete[SourceStep(shufsteps[slot + 1])] = 1
    /\ Len(rep) # slot
    /\ IF slot < Len(rep)
       THEN xstep' = rep[slot + 1].step /\ pc' = "rr_while"
       ELSE xstep' = SourceStep(shufsteps[slot + 1]) /\ pc' = "rr_error"
    /\ UNCHANGED <<ctlVars, phase, restarts, fileVars, ffVars, recVars, rsVars, killTimedOut, repVars,
                   reps, steplim, slot, maxreps>>

\* RunReps lines 448-449: another trial is due, the source mosaic is reloaded.
\* A count never written reads as the fill value, or as a masked value whose
\* comparison is false.
RunRepsReload ==
    /\ pc = "rr_while"
    /\ rep[slot + 1].reps < reps
    /\ ReLoadMosaic(xstep)
    /\ pc' = "rr_single"
    /\ UNCHANGED <<ctlVars, phase, restarts, burnfile, ffVars, recVars, rsVars, killTimedOut, repVars, rrVars>>

\* RunReps line 448: the slot holds <reps> trials, the for loop goes on
RunRepsNextSlot ==
    /\ pc = "rr_while"
    /\ \/ ~(rep[slot + 1].reps < reps)
       \/ rep[slot + 1].reps = FillShort
    /\ slot' = slot + 1
    /\ pc' = "rr_for"
    /\ UNCHANGED <<ctlVars, phase, restarts, fileVars, ffVars, recVars, rsVars, killTimedOut, repVars,
                   reps, steplim, xstep, maxreps>>

\* RunReps line 450: self.rec.ff.SingleStep()
RunRepsSingleStep ==
    /\ pc = "rr_single"
    /\ TrialSingleStep
    /\ pc' = "rr_check"
    /\ UNCHANGED <<ctlVars, phase, restarts, recVars, rsVars, repVars, rrVars>>

\* RunReps line 451: the cycle failed, the while loop tries again
RunRepsRetry ==
    /\ pc = "rr_check"
    /\ ~(status = TRUE /\ burndata # None)
    /\ pc' = "rr_while"
    /\ UNCHANGED <<ctlVars, phase, restarts, fileVars, ffVars, recVars, rsVars, killTimedOut, repVars, rrVars>>

\* RunReps line 452 into SaveRepeatStep lines 461-469: the trial is packed
\* into its plane; a plane outside the 'r' dimension raises IndexError
SaveRepeatStepTrials ==
    /\ pc = "rr_check"
    /\ status = TRUE /\ burndata # None
    /\ LET r == rep[slot + 1]
       IN IF PlaneOk(PlaneOf(r.reps))
          THEN /\ rep' = [rep EXCEPT ![slot + 1].trials =
                            [r.trials EXCEPT ![PlaneIndex(PlaneOf(r.reps))] =
                                PackedPlane(r, burndata)]]
               /\ pc' = "rr_save_reps"
          ELSE /\ rep' = rep
               /\ pc' = "rr_error"
    /\ UNCHANGED <<ctlVars, phase, restarts, fileVars, ffVars, recVars, rsVars, killTimedOut,
                   repExists, stepoffset, rdim, rrVars>>

\* SaveRepeatStep lines 470-471, then RunReps line 454
SaveRepeatStepCount ==
    /\ pc = "rr_save_reps"
    /\ rep' = [rep EXCEPT ![slot + 1].reps = @ + 1]
    /\ pc' = IF rep'[slot + 1].reps % CalcInt = 0 THEN "rr_probs" ELSE "rr_while"
    /\ UNCHANGED <<ctlVars, phase, restarts, fileVars, ffVars, recVars, rsVars, killTimedOut,
                   repExists, stepoffset, rdim, rrVars>>

\* RunReps line 455: self.StepProbabilities(i, step)
RunRepsProbs ==
    /\ pc = "rr_probs"
    /\ rep' = [rep EXCEPT ![slot + 1] =
                  StepProbs(@, shufsteps[slot + 1], DefaultMaxReps, @.reps)]
    /\ pc' = "rr_while"
    /\ UNCHANGED <<ctlVars, phase, restarts, fileVars, ffVars, recVars, rsVars, killTimedOut,
                   repExists, stepoffset, rdim, rrVars>>

\* RepeatedFuelFire(ffdir).UpdateStepProbs(steplim, maxreps), lines 475-476
UpdateStepProbsBegin ==
    /\ phase \in {"repeat", "update"}
    /\ phase' = "update"
    /\ pc = "idle"
    /\ repExists
    /\ steplim' = Len(rep)
    /\ maxreps' = DefaultMaxReps
    /\ slot' = 0
    /\ pc' = "up_for"
    /\ UNCHANGED <<ctlVars, restarts, fileVars, ffVars, recVars, rsVars, killTimedOut, repVars,
                   reps, xstep>>

\* UpdateStepProbs lines 478-479: StepProbabilities of the next slot; a slot
\* past the end of 't' raises IndexError, and so does a count never written
\* when it reads as a masked value
UpdateStepProbsSlot ==
    /\ pc = "up_for"
    /\ slot < LoopEnd(steplim)
    /\ \/ /\ slot < Len(rep)
          /\ rep' = [rep EXCEPT ![slot + 1] =
                        StepProbs(@, shufsteps[slot + 1], maxreps, @.reps)]
          /\ slot' = slot + 1
          /\ pc' = "up_for"
       \/ /\ IF slot < Len(rep) THEN rep[slot + 1].reps = FillShort ELSE TRUE
          /\ rep' = rep
          /\ slot' = slot
          /\ pc' = "up_error"
    /\ UNCHANGED <<ctlVars, phase, restarts, fileVars, ffVars, recVars, rsVars, killTimedOut,
                   repExists, stepoffset, rdim, reps, steplim, xstep, maxreps>>

\* UpdateStepProbs line 478: the for loop is exhausted
UpdateStepProbsReturn ==
    /\ pc = "up_for"
    /\ slot >= LoopEnd(steplim)
    /\ pc' = "up_done"
    /\ UNCHANGED <<ctlVars, phase, restarts, fileVars, ffVars, recVars, rsVars, killTimedOut, repVars, rrVars>>

(* ------------------------ end of a call ------------------------------- *)

Returned == {"rs_done", "rr_done", "up_done"}
Raised == {"rr_error", "up_error", "rc_raise", "rf_error"}

\* the call has returned or raised
Finish ==
    /\ pc \in Returned \cup Raised
    /\ EndCall
    /\ UNCHANGED <<ctlVars, phase, restarts, fileVars, recVars, repVars>>

\* the controlling script is interrupted (host crash, operator abort): only
\* the files persist
Interrupt ==
    /\ pc \notin {"idle"} \cup Returned \cup Raised
    /\ restarts < MaxRestarts
    /\ restarts' = restarts + 1
    /\ EndCall
    /\ UNCHANGED <<ctlVars, phase, fileVars, recVars, repVars>>

\* the steps of the record phase
RecordStep ==
    \/ CreateEmptyRecord
    \/ OpenRecordMissing
    \/ RunStepsBegin
    \/ RunStepsReload
    \/ RunStepsSingleStep
    \/ RunStepsRetry
    \/ SaveMosaicReject
    \/ SaveMosaicAge
    \/ SaveMosaicFuel
    \/ SaveMosaicComplete
    \/ RunStepsReturn

\* the steps of the repeat phase and of the update after it
RepeatStep ==
    \/ RunStepsCall
    \/ CreateRepeat
    \/ OpenRepeatMissing
    \/ RunRepsUnbound
    \/ RunRepsBegin
    \/ RunRepsReturn
    \/ RunRepsSkip
    \/ RunRepsInitStep
    \/ RunRepsInitReps
    \/ RunRepsInitTrials
    \/ RunRepsVisit
    \/ RunRepsReload
    \/ RunRepsNextSlot
    \/ RunRepsSingleStep
    \/ RunRepsRetry
    \/ SaveRepeatStepTrials
    \/ SaveRepeatStepCount
    \/ RunRepsProbs
    \/ UpdateStepProbsBegin
    \/ UpdateStepProbsSlot
    \/ UpdateStepProbsReturn

CallEnd == Finish \/ Interrupt

RecordNext == RecordStep \/ CallEnd
RepeatNext == RepeatStep \/ CallEnd
Next == RecordStep \/ RepeatStep \/ CallEnd

Spec == Init /\ [][Next]_vars

\* the record phase alone, and the repeat phase alone
RecordSpec == RecordInit /\ [][RecordNext]_vars
RepeatSpec == RepeatInit /\ [][RepeatNext]_vars

\* the statements of a running RunSteps call: python goes on to the next one
RunStepsStep ==
    \/ RunStepsReload
    \/ RunStepsSingleStep
    \/ RunStepsRetry
    \/ SaveMosaicReject
    \/ SaveMosaicAge
    \/ SaveMosaicFuel
    \/ SaveMosaicComplete
    \/ RunStepsReturn

\* a cycle of a working engine: it ends ok with a mosaic that SaveMosaic takes
WorkingCycle ==
    /\ RunStepsSingleStep
    /\ status' = TRUE
    /\ ~MosaicRejected(Head(steps))'

\* the record phase with a running call making progress and an engine that
\* does not fail or repeat the previous mosaic forever
FairRecordSpec ==
    /\ RecordInit
    /\ [][RecordNext]_vars
    /\ WF_vars(RunStepsStep)
    /\ SF_vars(WorkingCycle)

(* ------------------ FuelFire, statement by statement ------------------ *)

\* states of a process: alive ones, and exited with code 0 / another code
Alive == {"launching", "dialog", "running"}

\* variant of PollTruthy: the handle always counts as exited
PollTruthyAlways(proc) == TRUE

\* truth value of Popen.poll(): None while the process lives, else its exit
\* code, which is false when 0 (Kill lines 208 and 210 test 'not poll()')
PollTruthy(proc) == proc = "exit1"

\* SHELL.SendKeys('{ESC}'): dismisses the launch dialog of the engine
SendEsc(proc) == IF proc = "dialog" THEN "running" ELSE proc

\* the statement after StartModel in the running method
AfterStart == IF run = "TimedRun" THEN "tr_sleep" ELSE "mw_poll"

\* the statement after ModelWait: SingleStep line 168, StraightSteps 146-155
AfterWait(ok) == IF run = "StraightSteps" /\ ok THEN "ss_marks" ELSE "kill_begin"

\* the statement after Kill in the running method
AfterKill ==
    IF run = "SingleStep" THEN "getbout"
    ELSE IF run = "StraightSteps" THEN "ss_remove2" ELSE "tr_remove"

\* variant of StartModelRemoved: a stale burn file is left in place
StartModelKept == burnfile

\* StartModel lines 174-175: the burn file after them
StartModelRemoved == FALSE

\* the controller has a FuelFire object and no store is involved
ControlInit ==
    /\ NoProcess
    /\ phase = "control"
    /\ pc = "idle"
    /\ restarts = 0
    /\ agefile = [c \in Cells |-> 0]
    /\ fuelfile = [c \in Cells |-> 0]
    /\ burnfile \in BOOLEAN
    /\ recExists = FALSE
    /\ nsteps = 0
    /\ age = <<>>
    /\ fuel = <<>>
    /\ complete = <<>>
    /\ shufsteps = <<>>
    /\ NoCall
    /\ NoRepeat

\* the <fatalerror> a method passes to ModelWait: SingleStep its own <fatal>
\* argument (line 167), StraightSteps False (line 145); TimedRun has no wait
WaitArgument(method) == IF method = "SingleStep" THEN BOOLEAN ELSE {FALSE}

\* RemoveBurn lines 236-243: files are removed from n = 0 up to the first
\* number that has no file; BURNT0OUT.TXT and BURNT1OUT.TXT after it
RemoveBurnFirst == FALSE
RemoveBurnLater == IF burnfile THEN FALSE ELSE laterfile

\* a method of FuelFire is called: SingleStep, StraightSteps or TimedRun
Call ==
    /\ ffpc = "idle"
    /\ cycles < MaxCycles
    /\ run' \in {"SingleStep", "StraightSteps", "TimedRun"}
    /\ fatalerror' \in WaitArgument(run')
    /\ ffpc' = IF run' = "StraightSteps" THEN "ss_remove" ELSE "sm_remove"
    /\ UNCHANGED <<storeVars, laterfile, burnfile, status, burndata, FF_EXE, orphans, taskkill,
                   waitExpired, killExpired, quiet, life, cycles>>

\* StraightSteps line 143: RemoveBurn before the attempt
StraightStepsRemoveBurn ==
    /\ ffpc = "ss_remove"
    /\ burnfile' = RemoveBurnFirst
    /\ laterfile' = RemoveBurnLater
    /\ ffpc' = "sm_remove"
    /\ UNCHANGED <<storeVars, fatalerror, status, burndata, run, FF_EXE, orphans, taskkill,
                   waitExpired, killExpired, quiet, life, cycles>>

\* StartModel lines 173-179
StartModelRemove ==
    /\ ffpc = "sm_remove"
    /\ cycles < MaxCycles
    /\ burnfile' = StartModelRemoved
    /\ burndata' = None
    /\ status' = TRUE
    /\ waitExpired' = FALSE
    /\ life' = "Starting"
    /\ ffpc' = "sm_popen"
    /\ UNCHANGED <<storeVars, fatalerror, laterfile, run, FF_EXE, orphans, taskkill, killExpired, quiet, cycles>>

\* StartModel line 180: the new process replaces the handle
StartModelPopen ==
    /\ ffpc = "sm_popen"
    /\ FF_EXE' = "launching"
    /\ orphans' = IF FF_EXE \in Alive THEN orphans + 1 ELSE orphans
    /\ cycles' = cycles + 1
    /\ ffpc' = "sm_sleep"
    /\ UNCHANGED <<storeVars, fatalerror, laterfile, burnfile, status, burndata, run, taskkill, waitExpired,
                   killExpired, quiet, life>>

\* StartModel lines 181-182: after the sleep the key is sent, StartModel returns
StartModelSendKeys ==
    /\ ffpc = "sm_sleep"
    /\ FF_EXE' = SendEsc(FF_EXE)
    /\ life' = "Running"
    /\ ffpc' = AfterStart
    /\ UNCHANGED <<storeVars, fatalerror, laterfile, burnfile, status, burndata, run, orphans, taskkill,
                   waitExpired, killExpired, quiet, cycles>>

\* ModelWait lines 186-193: the burn file is readable and has gone quiet
ModelWaitReturn ==
    /\ ffpc = "mw_poll"
    /\ ~waitExpired
    /\ burnfile /\ quiet
    /\ life' = "Completed"
    /\ ffpc' = AfterWait(TRUE)
    /\ UNCHANGED <<storeVars, fatalerror, laterfile, burnfile, status, burndata, run, FF_EXE, orphans, taskkill,
                   waitExpired, killExpired, quiet, cycles>>

\* ModelWait lines 186, 198-200: the loop condition fails
ModelWaitTimeout ==
    /\ ffpc = "mw_poll"
    /\ waitExpired
    /\ status' = FALSE
    /\ life' = "TimedOut"
    /\ ffpc' = AfterWait(FALSE)
    /\ UNCHANGED <<storeVars, fatalerror, laterfile, burnfile, burndata, run, FF_EXE, orphans, taskkill,
                   waitExpired, killExpired, quiet, cycles>>

\* StraightSteps lines 147-153 with marks = [0]: the mark's file is there
StraightStepsMarks ==
    /\ ffpc = "ss_marks"
    /\ burnfile
    /\ ffpc' = "kill_begin"
    /\ UNCHANGED <<storeVars, fatalerror, laterfile, burnfile, status, burndata, run, FF_EXE, orphans, taskkill,
                   waitExpired, killExpired, quiet, life, cycles>>

\* TimedRun line 135: the hold is over
TimedRunSleep ==
    /\ ffpc = "tr_sleep"
    /\ ffpc' = "kill_begin"
    /\ UNCHANGED <<storeVars, fatalerror, laterfile, burnfile, status, burndata, run, FF_EXE, orphans, taskkill,
                   waitExpired, killExpired, quiet, life, cycles>>

\* Kill lines 204-207
KillBegin ==
    /\ ffpc = "kill_begin"
    /\ killExpired' = FALSE
    /\ FF_EXE' = SendEsc(FF_EXE)
    /\ ffpc' = "kill_outer"
    /\ UNCHANGED <<storeVars, fatalerror, laterfile, burnfile, status, burndata, run, orphans, taskkill,
                   waitExpired, quiet, life, cycles>>

\* Kill lines 208-209: the handle does not report a non-zero exit code, a
\* TASKKILL is spawned
KillSpawn ==
    /\ ffpc = "kill_outer"
    /\ ~PollTruthy(FF_EXE)
    /\ taskkill' = "running"
    /\ ffpc' = "kill_inner"
    /\ UNCHANGED <<storeVars, fatalerror, laterfile, burnfile, status, burndata, run, FF_EXE, orphans,
                   waitExpired, killExpired, quiet, life, cycles>>

\* Kill lines 210-211: the TASKKILL reports a non-zero exit code
KillPollTask ==
    /\ ffpc = "kill_inner"
    /\ PollTruthy(taskkill)
    /\ ffpc' = "kill_outer"
    /\ UNCHANGED <<storeVars, fatalerror, laterfile, burnfile, status, burndata, run, FF_EXE, orphans, taskkill,
                   waitExpired, killExpired, quiet, life, cycles>>

\* Kill lines 208, 213-222: the loop ends, the elapsed time is looked at
KillReturn ==
    /\ ffpc = "kill_outer"
    /\ PollTruthy(FF_EXE)
    /\ status' = IF killExpired THEN FALSE ELSE status
    /\ life' = "Killed"
    /\ ffpc' = AfterKill
    /\ UNCHANGED <<storeVars, fatalerror, laterfile, burnfile, burndata, run, FF_EXE, orphans, taskkill,
                   waitExpired, killExpired, quiet, cycles>>

\* SingleStep line 169 with GetBout lines 226-231, then SingleStep returns
GetBout ==
    /\ ffpc = "getbout"
    /\ \E e \in EngineRuns :
           burndata' = IF status = TRUE /\ burnfile THEN e.burn ELSE None
    /\ run' = "none"
    /\ life' = "Idle"
    /\ ffpc' = "idle"
    /\ UNCHANGED <<storeVars, fatalerror, laterfile, burnfile, status, FF_EXE, orphans, taskkill,
                   waitExpired, killExpired, quiet, cycles>>

\* StraightSteps line 156: RemoveBurn after Kill
StraightStepsRemoveAfter ==
    /\ ffpc = "ss_remove2"
    /\ burnfile' = RemoveBurnFirst
    /\ laterfile' = RemoveBurnLater
    /\ ffpc' = "ss_status"
    /\ UNCHANGED <<storeVars, fatalerror, status, burndata, run, FF_EXE, orphans, taskkill,
                   waitExpired, killExpired, quiet, life, cycles>>

\* StraightSteps lines 158-160: the cycle succeeded
StraightStepsReturn ==
    /\ ffpc = "ss_status"
    /\ status = TRUE
    /\ run' = "none"
    /\ life' = "Idle"
    /\ ffpc' = "idle"
    /\ UNCHANGED <<storeVars, fatalerror, laterfile, burnfile, status, burndata, FF_EXE, orphans, taskkill,
                   waitExpired, killExpired, quiet, cycles>>

\* StraightSteps lines 161-162 and 142-143: the cycle failed, the loop goes on
StraightStepsRetry ==
    /\ ffpc = "ss_status"
    /\ status # TRUE
    /\ ffpc' = "ss_remove"
    /\ UNCHANGED <<storeVars, fatalerror, laterfile, burnfile, status, burndata, run, FF_EXE, orphans, taskkill,
                   waitExpired, killExpired, quiet, life, cycles>>

\* TimedRun line 137: RemoveBurn, then TimedRun returns
TimedRunRemoveBurn ==
    /\ ffpc = "tr_remove"
    /\ burnfile' = RemoveBurnFirst
    /\ laterfile' = RemoveBurnLater
    /\ run' = "none"
    /\ life' = "Idle"
    /\ ffpc' = "idle"
    /\ UNCHANGED <<storeVars, fatalerror, status, burndata, FF_EXE, orphans, taskkill,
                   waitExpired, killExpired, quiet, cycles>>

\* the engine has opened its launch dialog and blocks on it
EngineDialog ==
    /\ FF_EXE = "launching"
    /\ FF_EXE' = "dialog"
    /\ UNCHANGED <<storeVars, fatalerror, laterfile, burnfile, status, burndata, run, ffpc, orphans, taskkill,
                   waitExpired, killExpired, quiet, life, cycles>>

\* the engine, its dialog dismissed, writes BURNT0OUT.TXT
EngineWrite ==
    /\ FF_EXE = "running"
    /\ burnfile' = TRUE
    /\ quiet' = FALSE
    /\ UNCHANGED <<storeVars, fatalerror, laterfile, status, burndata, run, ffpc, FF_EXE, orphans, taskkill,
                   waitExpired, killExpired, life, cycles>>

\* the engine goes on to its next step and writes BURNT1OUT.TXT
EngineWriteLater ==
    /\ FF_EXE = "running"
    /\ burnfile
    /\ laterfile' = TRUE
    /\ UNCHANGED <<storeVars, fatalerror, burnfile, status, burndata, run, ffpc, FF_EXE,
                   orphans, taskkill, waitExpired, killExpired, quiet, life, cycles>>

\* the engine process ends by itself, with any exit code
EngineExit ==
    /\ FF_EXE \in Alive
    /\ FF_EXE' \in {"exit0", "exit1"}
    /\ UNCHANGED <<storeVars, fatalerror, laterfile, burnfile, status, burndata, run, ffpc, orphans, taskkill,
                   waitExpired, killExpired, quiet, life, cycles>>

\* TASKKILL /IM FUELFIRE.EXE /F ends every process of that name and exits
\* with code 0
TaskkillDone ==
    /\ taskkill = "running"
    /\ FF_EXE \in Alive
    /\ FF_EXE' = "exit1"
    /\ orphans' = 0
    /\ taskkill' = "exit0"
    /\ UNCHANGED <<storeVars, fatalerror, laterfile, burnfile, status, burndata, run, ffpc,
                   waitExpired, killExpired, quiet, life, cycles>>

\* TASKKILL finds no process of that name, or is refused: a non-zero code
TaskkillFailed ==
    /\ taskkill = "running"
    /\ taskkill' = "exit1"
    /\ UNCHANGED <<storeVars, fatalerror, laterfile, burnfile, status, burndata, run, ffpc, FF_EXE, orphans,
                   waitExpired, killExpired, quiet, life, cycles>>

\* the passing of time against WAITTIMEOUT, KILLTIMEOUT and MODTHRESH
TimeWait ==
    /\ run # "none"
    /\ ~waitExpired
    /\ waitExpired' = TRUE
    /\ UNCHANGED <<storeVars, fatalerror, laterfile, burnfile, status, burndata, run, ffpc, FF_EXE, orphans,
                   taskkill, killExpired, quiet, life, cycles>>

TimeKill ==
    /\ ffpc \in {"kill_outer", "kill_inner"}
    /\ ~killExpired
    /\ killExpired' = TRUE
    /\ UNCHANGED <<storeVars, fatalerror, laterfile, burnfile, status, burndata, run, ffpc, FF_EXE, orphans,
                   taskkill, waitExpired, quiet, life, cycles>>

TimeQuiet ==
    /\ burnfile
    /\ ~quiet
    /\ quiet' = TRUE
    /\ UNCHANGED <<storeVars, fatalerror, laterfile, burnfile, status, burndata, run, ffpc, FF_EXE, orphans,
                   taskkill, waitExpired, killExpired, life, cycles>>

ControlNext ==
    \/ Call
    \/ StraightStepsRemoveBurn
    \/ StartModelRemove
    \/ StartModelPopen
    \/ StartModelSendKeys
    \/ ModelWaitReturn
    \/ ModelWaitTimeout
    \/ StraightStepsMarks
    \/ TimedRunSleep
    \/ KillBegin
    \/ KillSpawn
    \/ KillPollTask
    \/ KillReturn
    \/ GetBout
    \/ StraightStepsRemoveAfter
    \/ StraightStepsReturn
    \/ StraightStepsRetry
    \/ TimedRunRemoveBurn
    \/ EngineDialog
    \/ EngineWrite
    \/ EngineWriteLater
    \/ EngineExit
    \/ TaskkillDone
    \/ TaskkillFailed
    \/ TimeWait
    \/ TimeKill
    \/ TimeQuiet

ControlSpec == ControlInit /\ [][ControlNext]_vars

(* ---------------- one replicate slot, trial by trial ------------------ *)

\* <maxreps> of the repeat.nc whose slot 0 is filled trial by trial
PackLength == 9

\* the <reps> argument of RunReps, counted from the trials the slot holds
PackTrials == 3

\* burn grids of an engine step that succeeded: no cell burned, every cell
\* burned, one cell burned
PackGrids ==
    {[c \in Cells |-> FALSE], [c \in Cells |-> TRUE]} \cup
    {[c \in Cells |-> c = b] : b \in Cells}

\* <maxreps> arguments of StepProbabilities
PackMaxReps == {1, 8, DefaultMaxReps}

\* RunReps lines 442-444: the lazy initialisation of a new record
FreshSlot(step) ==
    [FillSlot EXCEPT !.step = step, !.reps = 0,
                     !.trials = [p \in Planes |-> [c \in Cells |-> TrialReset]]]

\* SaveRepeatStep lines 461-471 on record r
SaveRepeatStep(r, burn) ==
    [r EXCEPT !.trials = [r.trials EXCEPT ![PlaneIndex(PlaneOf(r.reps))] =
                             PackedPlane(r, burn)],
              !.reps = @ + 1]

\* SaveRepeatStep of every grid of a sequence, in order (v: the record
\* after the grids before, computed once)
RECURSIVE SavedAll(_, _)
SavedAll(r, grids) ==
    IF grids = <<>> THEN r
    ELSE CHOOSE x \in {SavedAll(SaveRepeatStep(v, Head(grids)), Tail(grids)) : v \in {r}} :
             TRUE

\* the trials slot 0 starts with: none, one short of a full plane, one
\* short of the 'r' dimension, each the same grid over and over
PackStarts ==
    {<<>>} \cup
    {[n \in 1..k |-> g] : k \in {7, 8 * PlanesFor(PackLength) - 1},
                          g \in {[c \in Cells |-> TRUE], [c \in Cells |-> c = 1]}}

\* record.nc complete, repeat.nc with slot 0 initialised and filled by
\* SaveRepeatStep with the trials of <appended>; RunReps is in its while loop
PackInit ==
    /\ NoProcess
    /\ phase = "pack"
    /\ restarts = 0
    /\ pc = "pk_while"
    /\ recExists = TRUE
    /\ nsteps = RepeatSteps
    /\ shufsteps = [k \in 1..RepeatSteps |-> k - 1]
    /\ complete = [s \in StepIdx |-> 1]
    /\ age = [s \in StepIdx |-> RecordedAge(s)]
    /\ fuel = [s \in StepIdx |-> RecordedFuel]
    /\ agefile = [c \in Cells |-> Bias + RecordedAge(0)[c]]
    /\ fuelfile = [c \in Cells |-> Bias + RecordedFuel[c]]
    /\ burnfile = TRUE
    /\ status = TRUE
    /\ burndata = None
    /\ steps = <<>>
    /\ stop = {}
    /\ killTimedOut = FALSE
    /\ repExists = TRUE
    /\ stepoffset = 0
    /\ rdim = PlanesFor(PackLength)
    /\ appended \in PackStarts
    /\ wedge = NoWedge
    /\ rep = <<SavedAll(FreshSlot(SourceStep(shufsteps[1])), appended)>>
    /\ reps = Len(appended) + PackTrials
    /\ steplim = 1
    /\ slot = 0
    /\ xstep = SourceStep(shufsteps[1])
    /\ maxreps = 0

\* RunReps lines 448-452 with SaveRepeatStep: an engine step that succeeded
\* is stored in slot 0; a plane outside the 'r' dimension raises IndexError
PackAppend ==
    /\ phase = "pack"
    /\ pc # "pk_error"
    /\ rep[1].reps < reps
    /\ status' = TRUE
    /\ \E b \in PackGrids :
         /\ burndata' = b
         /\ IF PlaneOk(PlaneOf(rep[1].reps))
            THEN /\ rep' = <<SaveRepeatStep(rep[1], b)>>
                 /\ appended' = Append(appended, b)
                 /\ pc' = "pk_saved"
            ELSE /\ rep' = rep
                 /\ appended' = appended
                 /\ pc' = "pk_error"
    /\ UNCHANGED <<run, ffpc, FF_EXE, orphans, taskkill, waitExpired, killExpired, quiet,
                   life, cycles, fatalerror, laterfile, wedge, phase, restarts, fileVars,
                   recVars, rsVars, killTimedOut, repExists, stepoffset, rdim, rrVars>>

\* RunReps lines 448-451: the engine step failed, nothing is stored
PackFailed ==
    /\ phase = "pack"
    /\ pc # "pk_error"
    /\ rep[1].reps < reps
    /\ status' = FALSE
    /\ burndata' = None
    /\ pc' = "pk_failed"
    /\ UNCHANGED <<ctlVars, phase, restarts, fileVars, recVars, rsVars, killTimedOut,
                   repVars, rrVars>>

\* StepProbabilities(0, step, maxreps), lines 481-509
PackProbs ==
    /\ phase = "pack"
    /\ pc # "pk_error"
    /\ \E m \in PackMaxReps :
         /\ maxreps' = m
         /\ rep' = <<StepProbs(rep[1], shufsteps[1], m, rep[1].reps)>>
    /\ pc' = "pk_probed"
    /\ UNCHANGED <<ctlVars, phase, restarts, fileVars, ffVars, recVars, rsVars,
                   killTimedOut, repExists, stepoffset, rdim, reps, steplim, slot, xstep>>

PackNext == PackAppend \/ PackFailed \/ PackProbs

PackSpec == PackInit /\ [][PackNext]_vars

(* ------------------- the bias encoding of a cell ---------------------- *)

\* the documented range of an age or fuel value, class docstring lines 256-259
MaxCell == 255

\* the values a cell of AGEPIX.DAT / CANOPIX.DAT can hold
CellValues == 0..MaxCell

\* a model directory without record.nc whose input grids hold one value
CodecInit ==
    /\ NoProcess
    /\ phase = "codec"
    /\ restarts = 0
    /\ pc = "idle"
    /\ \E v \in CellValues :
          /\ agefile = [c \in Cells |-> v]
          /\ fuelfile = [c \in Cells |-> v]
    /\ burnfile = FALSE
    /\ recExists = FALSE
    /\ nsteps = 0
    /\ age = <<>>
    /\ fuel = <<>>
    /\ complete = <<>>
    /\ shufsteps = <<>>
    /\ NoCall
    /\ NoRepeat

\* ReLoadMosaic(0) on the record just created, lines 343-347
CodecReload ==
    /\ phase = "codec"
    /\ pc = "idle"
    /\ recExists
    /\ ReLoadMosaic(0)
    /\ pc' = "cd_done"
    /\ UNCHANGED <<ctlVars, phase, restarts, burnfile, ffVars, recVars, rsVars, killTimedOut,
                   repVars, rrVars>>

CodecNext == CreateEmptyRecord \/ CodecReload

CodecSpec == CodecInit /\ [][CodecNext]_vars

(* --------------------------- Footprint.Wedge -------------------------- *)

\* unwrapPhase lines 45-51: whole turns are taken off or added until the
\* angle lies in [0, 360)
unwrapPhase(deg) == deg % 360

\* rad2deg(arctan2(b, a)) for a, b >= 0, not both 0: the 45-degree rays next
\* below and next above the angle (equal when the angle lies on a ray)
QuadrantRays(a, b) ==
    IF b = 0 THEN <<0, 0>>
    ELSE IF a = 0 THEN <<90, 90>>
    ELSE IF b < a THEN <<0, 45>>
    ELSE IF b = a THEN <<45, 45>>
    ELSE <<45, 90>>

\* Wedge line 28: unwrapPhase(rad2deg(arctan2(iy, ix))), counter-clockwise
\* from 3:00, as the rays below and above it; arctan2(0, 0) is 0
AngleRays(ix, iy) ==
    LET turn == CASE ix = 0 /\ iy = 0 -> <<0, <<0, 0>>>>
                  [] ix > 0 /\ iy >= 0 -> <<0, QuadrantRays(ix, iy)>>
                  [] ix <= 0 /\ iy > 0 -> <<90, QuadrantRays(iy, -ix)>>
                  [] ix < 0 /\ iy <= 0 -> <<180, QuadrantRays(-ix, -iy)>>
                  [] OTHER -> <<270, QuadrantRays(-iy, ix)>>
    IN <<turn[1] + turn[2][1], turn[1] + turn[2][2]>>

\* variant of DistSq: the distance along the longer axis
BoxSq(ix, iy) ==
    LET ax == IF ix < 0 THEN -ix ELSE ix
        ay == IF iy < 0 THEN -iy ELSE iy
    IN IF ax > ay THEN ax * ax ELSE ay * ay

\* Wedge line 29: dist, squared
DistSq(ix, iy) == ix * ix + iy * iy

\* python truth value of an optional number (None is the empty set):
\* 'if maxdist:' on line 36, 'if mindist:' on line 38
Truthy(opt) == \E d \in opt : d # 0

\* Wedge lines 26-43; start and end are multiples of 45 degrees, the
\* distances are not negative; row i holds iy = i - 1 - radius, column j
\* holds ix = j - 1 - radius
Wedge(radius, start, end, maxdist, mindist, center) ==
    LET s == unwrapPhase(start)
        e == unwrapPhase(end)
        side == IF radius < 0 THEN 0 ELSE 2 * radius + 1
        InAngle(ix, iy) ==
            IF s < e THEN AngleRays(ix, iy)[1] >= s /\ AngleRays(ix, iy)[2] <= e
            ELSE AngleRays(ix, iy)[1] >= s \/ AngleRays(ix, iy)[2] <= e
        InMax(ix, iy) ==
            IF Truthy(maxdist) THEN \A d \in maxdist : DistSq(ix, iy) <= d * d ELSE TRUE
        InMin(ix, iy) ==
            IF Truthy(mindist) THEN \A d \in mindist : DistSq(ix, iy) >= d * d ELSE TRUE
        Keep(ix, iy) ==
            IF DistSq(ix, iy) = 0 THEN center
            ELSE InAngle(ix, iy) /\ InMax(ix, iy) /\ InMin(ix, iy)
    IN [i \in 1..side |-> [j \in 1..side |-> Keep(j - 1 - radius, i - 1 - radius)]]

\* the arguments the calls are drawn from
WedgeRadii == (-1)..MaxRadius
WedgeAngles == {-90, 0, 45, 90, 180, 225, 270, 360, 405}
WedgeDists == {{}} \cup {{d} : d \in 0..MaxRadius}

\* a call of Wedge about to be made; the stores and the controller are idle
WedgeInit ==
    /\ NoProcess
    /\ phase = "wedge"
    /\ restarts = 0
    /\ pc = "idle"
    /\ agefile = [c \in Cells |-> 0]
    /\ fuelfile = [c \in Cells |-> 0]
    /\ burnfile = FALSE
    /\ recExists = FALSE
    /\ nsteps = 0
    /\ age = <<>>
    /\ fuel = <<>>
    /\ complete = <<>>
    /\ shufsteps = <<>>
    /\ NoCall
    /\ repExists = FALSE
    /\ stepoffset = 0
    /\ rdim = 0
    /\ rep = <<>>
    /\ appended = <<>>
    /\ wedge \in [pc : {"call"}, radius : WedgeRadii, start : WedgeAngles, end : WedgeAngles,
                  maxdist : WedgeDists, mindist : WedgeDists, center : BOOLEAN,
                  keep : {<<>>}]

\* Wedge(radius, start, end, maxdist, mindist, center) returns its mask
WedgeCall ==
    /\ phase = "wedge"
    /\ wedge.pc = "call"
    /\ wedge' = [wedge EXCEPT
                   !.pc = "returned",
                   !.keep = Wedge(wedge.radius, wedge.start, wedge.end,
                                  wedge.maxdist, wedge.mindist, wedge.center)]
    /\ UNCHANGED <<run, ffpc, FF_EXE, orphans, taskkill, waitExpired, killExpired, quiet,
                   life, cycles, fatalerror, laterfile, appended, pc, phase, restarts,
                   fileVars, ffVars, recVars, rsVars, killTimedOut, repVars, rrVars>>

WedgeNext == WedgeCall

WedgeSpec == WedgeInit /\ [][WedgeNext]_vars

(* ============================ properties ============================== *)

\* the steps a RunSteps(stop) call is asked to complete
Requested == {s \in StepIdx : \A k \in stop : s <= k}

\* C1: when RunSteps() without a stop cap has returned on a record created
\* with N steps, every completion flag complete[0..N-1] is 1.
C1_AllCompleteOnReturn ==
    (pc = "rs_done" /\ stop = {}) =>
        (nsteps = MaxSteps /\ \A s \in 0..(MaxSteps - 1) : complete[s] = 1)

\* an uncapped RunSteps that had work to do and was restarted has returned
C1_Witness ==
    /\ pc = "rs_done"
    /\ stop = {}
    /\ restarts > 0
    /\ \A s \in 0..(MaxSteps - 1) : complete[s] = 1

\* number of cells in which the engine's age grid equals the recorded grid
\* of step s
EqualCells(s) == Cardinality({c \in Cells : agefile[c] = Bias + age[s][c]})

\* C2: for a step s > 0, an engine result whose age grid equals the recorded
\* grid of step s-1 in more than half of the cells is rejected: complete[s]
\* stays 0, age[s] and fuel[s] are not written, and the loop goes on to
\* attempt the same step s again.
C2_UnchangedGridRejected ==
    [][(/\ pc = "rs_check"
        /\ status = TRUE
        /\ Head(steps) > 0
        /\ 2 * EqualCells(Head(steps) - 1) > NCells
        /\ pc' # "idle")
       => (/\ complete'[Head(steps)] = 0
           /\ age' = age
           /\ fuel' = fuel
           /\ pc' = "rs_loop"
           /\ steps' = steps)]_vars

\* a result was rejected (SaveMosaic cleared status, the burn grid of the
\* cycle is still held) and the same step is pending again
C2_Witness ==
    /\ pc = "rs_loop"
    /\ status = FALSE
    /\ burndata # None
    /\ Len(steps) > 0
    /\ Head(steps) > 0
    /\ 2 * EqualCells(Head(steps) - 1) > NCells
    /\ complete[Head(steps)] = 0
    /\ age[Head(steps)] = SentinelGrid

\* C3: once complete[s] is 1, no step of any operation (RunSteps, RunReps,
\* StepProbabilities, UpdateStepProbs, restarts included) changes
\* complete[s], age[s] or fuel[s].
C3_RecordImmutable ==
    [][\A s \in StepIdx :
           complete[s] = 1 =>
               /\ complete'[s] = 1
               /\ age'[s] = age[s]
               /\ fuel'[s] = fuel[s]]_vars

\* after a restart, UpdateStepProbs has recomputed a slot that holds trials
\* of a completed step
C3_Witness ==
    /\ pc = "up_done"
    /\ restarts > 0
    /\ Len(rep) > 0
    /\ rep[1].reps > 0
    /\ rep[1].hazard # FillSlot.hazard
    /\ \A s \in StepIdx : complete[s] = 1

\* C4: the engine is never run for a step whose completion flag is 1, no
\* trial is run for or appended to a slot whose persisted count has reached
\* the target, and the counted trials of every slot are kept.
C4_NoDuplicateWork ==
    [][/\ (pc = "rs_single" /\ pc' = "rs_check") => complete[Head(steps)] = 0
       /\ (pc = "rr_single" /\ pc' = "rr_check") => rep[slot + 1].reps < reps
       /\ (pc = "rr_check" /\ pc' = "rr_save_reps") => rep[slot + 1].reps < reps
       /\ \A i \in 1..Len(rep) :
              \A n \in 0..(rep[i].reps - 1) :
                  Trial(rep'[i], n) = Trial(rep[i], n)]_vars

\* a restarted RunReps is appending a further trial to a slot that holds a
\* counted trial with a burned cell
C4_Witness ==
    /\ pc = "rr_save_reps"
    /\ restarts > 0
    /\ rep[slot + 1].reps = 1
    /\ \E c \in Cells : Trial(rep[slot + 1], 0)[c] = 1

\* C7: after a Kill that exceeded the kill timeout, neither RunSteps nor
\* RunReps starts another engine cycle.
C7_KillTimeoutFatal ==
    [][killTimedOut => pc' \notin {"rs_single", "rr_single"}]_vars

C6_RunRepsReturns == restarts = 0 => pc # "rr_error"

\* C8: once the kill timeout has elapsed, Kill issues no further forced
\* termination.
C8_KillBounded ==
    [][(ffpc = "kill_outer" /\ ffpc' = "kill_inner") => ~killExpired]_vars

\* engine processes that are running
LiveEngines == orphans + (IF FF_EXE \in Alive THEN 1 ELSE 0)

\* the edges of the lifecycle that SingleStep, StraightSteps and TimedRun share
LifecycleEdges ==
    /\ (life' = "Starting" /\ life # "Starting") => life \in {"Idle", "Killed"}
    /\ (life' = "Running" /\ life # "Running") => life = "Starting"
    /\ (life' \in {"Completed", "TimedOut"} /\ life' # life) => life = "Running"
    /\ (life' = "Idle" /\ life # "Idle") => life = "Killed"
    /\ LiveEngines' <= 1

\* C9 as stated: in SingleStep, StraightSteps and TimedRun every start is
\* followed by a wait outcome and then a kill before the next start, and at
\* most one launched engine process is running.
C9_Lifecycle ==
    [][/\ LifecycleEdges
       /\ (life' = "Killed" /\ life # "Killed") => life \in {"Completed", "TimedOut"}]_vars

\* C9 amended: SingleStep and StraightSteps go start, wait outcome, kill;
\* TimedRun goes start, kill with no wait; in all three the next start comes
\* after the kill and at most one launched engine process is running.
C9_LifecycleAmended ==
    [][/\ LifecycleEdges
       /\ (life' = "Killed" /\ life # "Killed") =>
              IF run = "TimedRun" THEN life = "Running"
              ELSE life \in {"Completed", "TimedOut"}]_vars

\* the last cycle: TimedRun has killed the engine it launched, with no wait
C9_Witness ==
    /\ run = "TimedRun"
    /\ life = "Killed"
    /\ cycles = MaxCycles
    /\ LiveEngines = 0

\* C10: at the step in which StartModel returns, the burn file is absent and
\* status is ok, however the engine's launch interleaves with the sleep.
C10_StartLeavesNoArtifact ==
    [][(ffpc = "sm_sleep" /\ ffpc' # "sm_sleep") =>
           (burnfile' = FALSE /\ status' = TRUE)]_vars

\* StartModel of the last cycle has returned, the engine's dialog is
\* dismissed and the engine has not written yet
C10_Witness ==
    /\ ffpc \in {"mw_poll", "tr_sleep"}
    /\ cycles = MaxCycles
    /\ FF_EXE = "running"
    /\ burnfile = FALSE
    /\ status = TRUE

\* C11: ModelWait leaves its loop with success only before the timeout, with
\* the burn file present and quiet; on the timeout it sets status False and
\* returns False, and raises a hard error exactly when <fatalerror> is set.
C11_WaitOutcomes ==
    [][/\ (life' = "Completed" /\ life # "Completed") =>
              (~waitExpired /\ burnfile /\ quiet /\ status' = status)
       /\ (ffpc = "mw_poll" /\ ffpc' # "mw_poll" /\ waitExpired) =>
              /\ status' = FALSE
              /\ life' = "TimedOut"
              /\ fatalerror <=> ffpc' = "mw_raise"]_vars

\* C12: StraightSteps returns only from a cycle whose status is ok; the
\* RemoveBurn before an attempt leaves no numbered burn file; a cycle that
\* ends with status failed goes back to RemoveBurn and a new attempt.
C12_StraightSteps ==
    [][/\ (ffpc = "ss_remove" /\ ffpc' # "ss_remove") =>
              (burnfile' = FALSE /\ laterfile' = FALSE)
       /\ (ffpc = "ss_status" /\ ffpc' = "idle") => status = TRUE
       /\ (ffpc = "ss_status" /\ ffpc' # "ss_status" /\ status # TRUE) =>
              ffpc' = "ss_remove"]_vars

\* C13: a record store opened without its creation parameter while its file
\* is missing raises at construction, for record.nc and for repeat.nc: the
\* constructor never returns an object that has no dataset behind it.
C13_MissingFileRaises ==
    /\ pc # "rf_unbound"
    /\ pc # "rf_error"

\* C14: a slot whose source step is not complete is passed without an error
\* and without a change to repeat.nc, and the slots after it are processed
\* without an error.
C14_SkipThenContinue ==
    [][/\ (pc = "rr_for" /\ pc' = "rr_for" /\ slot' = slot + 1) => rep' = rep
       /\ (pc = "rr_for" /\ slot > Len(rep)) => pc' \notin Raised]_vars

\* C15: a slot RunReps goes on to work on has its back-reference and its
\* count written (the lazy initialisation is complete), whatever slots were
\* passed before and however often RunReps was restarted, and a slot that
\* exists is not initialised again.
C15_LazyInitOnce ==
    [][/\ (pc = "rr_for" /\ pc' \in {"rr_while", "rr_error"}) =>
              /\ slot < Len(rep)
              /\ rep[slot + 1].step # FillShort
              /\ rep[slot + 1].reps # FillShort
       /\ (pc = "rr_for" /\ pc' = "rr_init_reps") => slot >= Len(rep)]_vars

\* the trials stored in slot 0, and counts over the first n of them
Stored == rep[1].reps
BurnedIn(n, c) == Cardinality({t \in 1..n : appended[t][c]})
ReachedInTrial(t, c) == \E d \in Footprint : (c + d) \in Cells /\ appended[t][c + d]
ReachedIn(n, c) == Cardinality({t \in 1..n : ReachedInTrial(t, c)})
BurnedReachedIn(n, c) ==
    Cardinality({t \in 1..n : appended[t][c] /\ ReachedInTrial(t, c)})

\* C16: the count of a slot never decreases, goes up by exactly 1 with every
\* engine step that succeeded with a burn grid and by 0 with a failed one,
\* and never exceeds the 8 * len('r') trials repeat.nc was created for,
\* whatever <reps> RunReps was called with.
C16_CountBounded ==
    [][/\ rep'[1].reps >= Stored
       /\ (burndata' # None /\ pc' \in {"pk_saved", "pk_error"}) =>
              rep'[1].reps = Stored + 1
       /\ (pc' = "pk_failed") => rep'[1].reps = Stored
       /\ rep'[1].reps <= 8 * rdim]_vars

\* C17: the k grids stored by SaveRepeatStep in a freshly initialised slot
\* are what unpacking the planes yields, trial n from plane n div 8, bit
\* n mod 8, in the order they were stored.
C17_UnpackRoundTrip ==
    phase = "pack" =>
        /\ Stored = Len(appended)
        /\ \A n \in 0..(Stored - 1) :
               Trial(rep[1], n) = [c \in Cells |-> BoolInt(appended[n + 1][c])]

\* a trial was stored in the second plane, and a cell burned in all 8
\* trials of plane 0: its byte is 255, stored as -128
C17_Witness ==
    /\ phase = "pack"
    /\ pc = "pk_saved"
    /\ Stored > 8
    /\ \E c \in Cells : rep[1].trials[0][c] = -128 /\ Byte(rep[1].trials[0][c]) = 255
    /\ \E c \in Cells : ~appended[Stored][c]

C19_CappedTrials ==
    pc = "pk_probed" =>
        \A c \in Cells :
            /\ rep[1].hazard[c] = BurnedIn(Min(Stored, maxreps), c)
            /\ rep[1].reached[c] = ReachedIn(Min(Stored, maxreps), c)
            /\ rep[1].burnifreach[c] = BurnedReachedIn(Min(Stored, maxreps), c)

\* C20: the shuffled order of an existing record.nc holds every step index
\* of 0..N-1 exactly once, and no step of RunSteps, RunReps,
\* StepProbabilities, UpdateStepProbs or a restart changes it.
C20_ShuffleFixed ==
    [][/\ recExists => (recExists' /\ nsteps' = nsteps /\ shufsteps' = shufsteps)
       /\ recExists' =>
              /\ Len(shufsteps') = nsteps'
              /\ \A k \in 0..(nsteps' - 1) :
                     Cardinality({i \in 1..nsteps' : shufsteps'[i] = k}) = 1]_vars

\* a record created with an order that is not the ascending one, run to
\* completion by a RunSteps call after an interruption
C20_Witness ==
    /\ phase = "record"
    /\ pc = "rs_done"
    /\ restarts > 0
    /\ nsteps = MaxSteps
    /\ shufsteps[1] # 0
    /\ \A s \in StepIdx : complete[s] = 1

(* ------------------------------- C23 ---------------------------------- *)

\* the cells in which the engine's age grid differs from / equals the age
\* grid recorded for the step before <step>
DiffersFromPrevious(step) == {c \in Cells : LoadedAge[c] # age[step - 1][c]}
EqualsPrevious(step) == Cells \ DiffersFromPrevious(step)

\* SaveMosaic starts writing the grids of the step RunSteps is working on
RecordsStep == pc = "rs_check" /\ pc' = "sm_fuel"
\* SaveMosaic refuses the grid and RunSteps tries the step again
DiscardsStep == pc = "rs_check" /\ status = TRUE /\ pc' = "rs_loop"

\* C23 as stated: a grid is recorded only if it differs from the previous
\* step's recorded grid in more than half of its cells
C23_RecordedOnlyIfMostDiffer ==
    [][RecordsStep => 2 * Cardinality(DiffersFromPrevious(Head(steps))) > NCells]_vars

\* C23 amended: the grid of a successful engine run for step s > 0 is
\* discarded, and the step retried, exactly when its age grid equals the
\* recorded age grid of step s-1 in more than half of the cells; in every
\* other case, a grid that differs in exactly half of the cells included,
\* it is recorded
C23_DiscardedIffMostEqual ==
    [][/\ RecordsStep => 2 * Cardinality(EqualsPrevious(Head(steps))) <= NCells
       /\ DiscardsStep => 2 * Cardinality(EqualsPrevious(Head(steps))) > NCells
       /\ (pc = "rs_check" /\ status = TRUE) => (RecordsStep \/ DiscardsStep \/ pc' = "idle")]_vars

\* a grid that differs from the previous step's in exactly half of the
\* cells has been accepted: its age grid is written
C23_Witness ==
    /\ pc = "sm_fuel"
    /\ Head(steps) > 0
    /\ 2 * Cardinality({c \in Cells : age[Head(steps)][c] # age[Head(steps) - 1][c]}) = NCells

(* ------------------------------- C24 ---------------------------------- *)

\* this step is StepProbabilities on record i, called by RunReps (line 455)
\* or by UpdateStepProbs (line 479)
ProbabilitiesRan(i) ==
    \/ pc = "rr_probs" /\ pc' = "rr_while" /\ i = slot + 1
    \/ pc = "up_for" /\ pc' = "up_for" /\ slot' = slot + 1 /\ i = slot + 1

\* C24: after StepProbabilities runs for a slot, the slot's age and fuel
\* grids are copies of the step record's grids of the slot's back-referenced
\* source step, for every step offset
C24_CopiesSourceStepGrids ==
    [][\A i \in 1..Len(rep) :
          (ProbabilitiesRan(i) /\ rep'[i].step \in StepIdx) =>
              /\ rep'[i].age = age[rep'[i].step]
              /\ rep'[i].fuel = fuel[rep'[i].step]]_vars

(* ------------------------------- C26 ---------------------------------- *)

\* the number of completion flags that are 1
CompletedCount == Cardinality({s \in StepIdx : complete[s] = 1})

\* C26: when RunSteps(stop) returns on a store in which no step past <stop>
\* had been completed before (a freshly created one in particular), the
\* number of completion flags equal to 1 is <stop>
C26_StopStepsCompleted ==
    \A k \in stop :
        (/\ pc = "rs_done"
         /\ \A s \in StepIdx : s > k => complete[s] = 0) => CompletedCount = k

(* ------------------------------- C27 ---------------------------------- *)

\* the input files hold what ReLoadMosaic writes for the recorded step
ReloadedFrom(step) ==
    /\ agefile = [c \in Cells |-> Wrap8(Bias + age[step][c])]
    /\ fuelfile = [c \in Cells |-> Wrap8(Bias + fuel[step][c])]

\* C27: whenever RunSteps is about to start the engine for step s the input
\* files hold the reloaded grids of step s-1, and whenever RunReps is about
\* to start the engine for a slot they hold the reloaded grids of the slot's
\* source step, on first attempts and on retries alike
C27_EngineStartsFromRecord ==
    /\ pc = "rs_single" => ReloadedFrom(RecIndex(Head(steps) - 1))
    /\ pc = "rr_single" => (xstep = rep[slot + 1].step /\ ReloadedFrom(xstep))

\* RunSteps is about to start the engine again for step 2 after an engine
\* run for it has failed or been refused
C27_Witness ==
    /\ pc = "rs_single"
    /\ status = FALSE
    /\ Head(steps) = 2
    /\ ReloadedFrom(1)

(* ------------------------------- C28 ---------------------------------- *)

\* RunSteps is working on the first of its pending steps
RunStepsWorking == pc \in {"rs_loop", "rs_single", "rs_check", "sm_fuel", "sm_complete"}

\* C28: in every state of a step store the completed steps are a non-empty
\* prefix 0..k of the steps, and the step RunSteps works on is at least 1
\* and follows a completed step whose grids are recorded, so that neither
\* index -1 nor a sentinel-filled grid is reloaded
C28_CompletedPrefix ==
    recExists =>
        /\ \E k \in StepIdx : \A s \in StepIdx : complete[s] = 1 <=> s <= k
        /\ (RunStepsWorking /\ steps # <<>>) =>
              /\ Head(steps) >= 1
              /\ complete[Head(steps) - 1] = 1
              /\ age[Head(steps) - 1] # SentinelGrid
              /\ fuel[Head(steps) - 1] # SentinelGrid

\* a capped RunSteps, called after an interruption, is about to start the
\* engine for step 2 from the recorded step 1
C28_Witness ==
    /\ pc = "rs_single"
    /\ restarts > 0
    /\ stop # {}
    /\ Head(steps) = 2
    /\ complete = [s \in StepIdx |-> IF s <= 1 THEN 1 ELSE 0]

(* ------------------------------- C29 ---------------------------------- *)

\* C29: in every state the store is left in, states left by an interruption
\* between two writes of SaveMosaic included, a step whose completion flag
\* is 1 holds recorded age and fuel grids, not the sentinel, and the flag is
\* set only by SaveMosaic for the step being saved, after both grids of the
\* accepted engine run have been written
C29_FlagAfterGrids ==
    [][recExists' =>
         \A s \in 0..(nsteps' - 1) :
            complete'[s] = 1 =>
               /\ age'[s] # SentinelGrid
               /\ fuel'[s] # SentinelGrid
               /\ (recExists /\ complete[s] = 0) =>
                     /\ pc = "sm_complete"
                     /\ status = TRUE
                     /\ s = Head(steps)
                     /\ age'[s] = [c \in Cells |-> Wrap8(LoadedAge[c])]
                     /\ fuel'[s] = [c \in Cells |-> Wrap8(LoadedFuel[c])]]_vars

\* an interruption between the age write and the fuel write of SaveMosaic
\* has left a step with its age grid recorded and its flag still 0
C29_Witness ==
    /\ pc = "idle"
    /\ restarts > 0
    /\ \E s \in StepIdx :
          /\ complete[s] = 0
          /\ age[s] # SentinelGrid
          /\ fuel[s] = SentinelGrid

(* ------------------------------- C25 ---------------------------------- *)

\* C25: for every cell value of the documented range 0..255, saving it into
\* the signed 8-bit age/fuel storage never stores the sentinel -128, and
\* reloading it yields the value again
C25_SaveReloadRoundTrip ==
    [][phase = "codec" =>
         /\ recExists' =>
               \A c \in Cells : age'[0][c] # Sentinel /\ fuel'[0][c] # Sentinel
         /\ pc' = "cd_done" => (agefile' = agefile /\ fuelfile' = fuelfile)]_vars

(* ---------------------------- C21, C22 -------------------------------- *)

\* the offsets of row i, column j of the returned mask
OffsetX(j) == j - 1 - wedge.radius
OffsetY(i) == i - 1 - wedge.radius

\* the returned mask has <side> rows of <side> cells
HasSide(side) ==
    /\ Len(wedge.keep) = side
    /\ \A i \in 1..side : Len(wedge.keep[i]) = side

\* the cell's angle lies in the wedge from start to end, both normalized
AngleSelected(ix, iy) ==
    LET s == wedge.start % 360
        e == wedge.end % 360
        lo == AngleRays(ix, iy)[1]
        hi == AngleRays(ix, iy)[2]
    IN IF s < e THEN lo >= s /\ hi <= e ELSE lo >= s \/ hi <= e

\* C21: the mask covers exactly the offsets of [-radius, radius]^2 (0x0 for
\* a negative radius); a non-centre cell is set iff its angle is selected
\* and its distance is at most maxdist, if given, and at least mindist, if
\* given; the centre cell equals <center>
C21_WedgeMask ==
    wedge.pc = "returned" =>
        LET side == IF wedge.radius < 0 THEN 0 ELSE 2 * wedge.radius + 1
        IN /\ HasSide(side)
           /\ \A i, j \in 1..side :
                 wedge.keep[i][j] =
                    IF OffsetX(j) = 0 /\ OffsetY(i) = 0 THEN wedge.center
                    ELSE /\ AngleSelected(OffsetX(j), OffsetY(i))
                         /\ \A d \in wedge.maxdist :
                               OffsetX(j) * OffsetX(j) + OffsetY(i) * OffsetY(i) <= d * d
                         /\ \A d \in wedge.mindist :
                               OffsetX(j) * OffsetX(j) + OffsetY(i) * OffsetY(i) >= d * d

\* the call Wedge(r, 0, 360, maxdist=r) with r >= 0 has returned
DiskCall ==
    /\ wedge.pc = "returned"
    /\ wedge.radius >= 0
    /\ wedge.start = 0
    /\ wedge.end = 360
    /\ wedge.maxdist = {wedge.radius}
    /\ wedge.mindist = {}
    /\ wedge.center = FALSE

\* C22 as stated: Wedge(r, 0, 360, maxdist=r) is the Euclidean disk of
\* radius r, a cell being set iff dx^2 + dy^2 <= r^2
C22_ExactDisk ==
    DiskCall =>
        \A i, j \in 1..(2 * wedge.radius + 1) :
            wedge.keep[i][j] =
               (OffsetX(j) * OffsetX(j) + OffsetY(i) * OffsetY(i)
                   <= wedge.radius * wedge.radius)

\* C22 amended: Wedge(r, 0, 360, maxdist=r) is the Euclidean disk of radius
\* r without its centre: a cell is set iff 0 < dx^2 + dy^2 <= r^2
C22_DiskWithoutCentre ==
    DiskCall =>
        /\ HasSide(2 * wedge.radius + 1)
        /\ \A i, j \in 1..(2 * wedge.radius + 1) :
              wedge.keep[i][j] =
                 /\ 0 < OffsetX(j) * OffsetX(j) + OffsetY(i) * OffsetY(i)
                 /\ OffsetX(j) * OffsetX(j) + OffsetY(i) * OffsetY(i)
                       <= wedge.radius * wedge.radius

\* Wedge(2, 0, 360, maxdist=2) has returned a mask whose corner is unset
\* and whose cell straight above the centre at distance 2 is set
C22_Witness ==
    /\ DiskCall
    /\ wedge.radius = 2
    /\ wedge.keep[1][1] = FALSE
    /\ wedge.keep[1][3] = TRUE
    /\ wedge.keep[3][3] = FALSE

====
